---------------------------- MODULE Spec2Model ----------------------------
(***************************************************************************)
(* A model of the notebook cosmo.ipynb: a kernel namespace and five code  *)
(* cells (imports, age/diameter, Planck solve, Planck conversion,          *)
(* composition chart) that the user may execute in any order, editing the  *)
(* constants of a cell before running it.                                  *)
(*                                                                         *)
(* Python floats are modelled as decimal floating-point numbers with an    *)
(* eight-digit mantissa (value = m * 10^e), rounded after every operation; *)
(* sympy's exact rationals are modelled as normalised fractions.           *)
(***************************************************************************)
EXTENDS Integers, Sequences, FiniteSets, TLC

(***************************************************************************)
(* Decimal floating point: the model of a Python / numpy float.            *)
(***************************************************************************)
MantLo == 10^7
MantHi == 10^8
Half == 10^4

NaN == [nan |-> TRUE, m |-> 0, e |-> 0]
FZero == [nan |-> FALSE, m |-> 0, e |-> 0]

RECURSIVE Norm(_, _, _)
\* sign s, mantissa m >= 0 and exponent e as a float: the mantissa is brought
\* into [MantLo, MantHi), rounding half up
Norm(s, m, e) ==
    IF m = 0 THEN FZero
    ELSE IF m >= MantHi THEN Norm(s, (m + 5) \div 10, e + 1)
    ELSE IF m < MantLo THEN Norm(s, m * 10, e - 1)
    ELSE [nan |-> FALSE, m |-> s * m, e |-> e]

\* the float m * 10^e
Flt(m, e) == IF m < 0 THEN Norm(-1, -m, e) ELSE Norm(1, m, e)

FOne == [nan |-> FALSE, m |-> 10000000, e |-> -7]
FTwo == [nan |-> FALSE, m |-> 20000000, e |-> -7]
FHalf == [nan |-> FALSE, m |-> 50000000, e |-> -8]

FNeg(x) == IF x.nan THEN NaN ELSE [x EXCEPT !.m = -x.m]

FAbs(x) == IF x.nan THEN NaN ELSE [x EXCEPT !.m = IF x.m < 0 THEN -x.m ELSE x.m]

\* the product of two eight-digit mantissas a and b, to eight digits
MulMant(s, a, b, e) ==
    LET ah == a \div Half
        al == a % Half
        bh == b \div Half
        bl == b % Half
        mid == ah * bl + al * bh + (al * bl) \div Half
        q == ah * bh + mid \div Half
        r == mid % Half
    IN  IF q >= MantLo
        THEN Norm(s, q + (IF r >= 5000 THEN 1 ELSE 0), e + 8)
        ELSE Norm(s, q * 10 + r \div 1000 + (IF (r % 1000) >= 500 THEN 1 ELSE 0), e + 7)

FMul(x, y) ==
    IF x.nan \/ y.nan THEN NaN
    ELSE IF x.m = 0 \/ y.m = 0 THEN FZero
    ELSE MulMant(IF (x.m < 0) = (y.m < 0) THEN 1 ELSE -1,
                 IF x.m < 0 THEN -x.m ELSE x.m,
                 IF y.m < 0 THEN -y.m ELSE y.m,
                 x.e + y.e)

RECURSIVE LongDiv(_, _, _, _, _, _)
\* n further decimal digits of r / b appended to acc, then rounded on the
\* remainder
LongDiv(s, r, b, n, acc, e) ==
    IF n = 0 THEN Norm(s, acc + (IF 2 * r >= b THEN 1 ELSE 0), e)
    ELSE LongDiv(s, (r * 10) % b, b, n - 1, acc * 10 + (r * 10) \div b, e)

DivMant(s, a, b, e) ==
    IF a >= b THEN LongDiv(s, a % b, b, 7, a \div b, e - 7)
    ELSE LongDiv(s, a % b, b, 8, a \div b, e - 8)

\* division as numpy does it: no exception, a non-finite result for y = 0
FDiv(x, y) ==
    IF x.nan \/ y.nan THEN NaN
    ELSE IF y.m = 0 THEN NaN
    ELSE IF x.m = 0 THEN FZero
    ELSE DivMant(IF (x.m < 0) = (y.m < 0) THEN 1 ELSE -1,
                 IF x.m < 0 THEN -x.m ELSE x.m,
                 IF y.m < 0 THEN -y.m ELSE y.m,
                 x.e - y.e)

Pow10 == << 1, 10, 100, 1000, 10000, 100000, 1000000, 10000000,
            100000000, 1000000000 >>

\* big + sml, where big has the larger exponent and p = 10^(difference)
AddMant(big, sml, p) ==
    LET t == big.m * 10
             + (IF sml.m < 0 THEN -((-sml.m * 10 + p \div 2) \div p)
                ELSE (sml.m * 10 + p \div 2) \div p)
    IN  IF t < 0 THEN Norm(-1, -t, big.e - 1) ELSE Norm(1, t, big.e - 1)

FAdd(x, y) ==
    IF x.nan \/ y.nan THEN NaN
    ELSE IF x.m = 0 THEN y
    ELSE IF y.m = 0 THEN x
    ELSE IF x.e >= y.e
    THEN (IF x.e - y.e > 9 THEN x ELSE AddMant(x, y, Pow10[x.e - y.e + 1]))
    ELSE (IF y.e - x.e > 9 THEN y ELSE AddMant(y, x, Pow10[y.e - x.e + 1]))

FSub(x, y) == FAdd(x, FNeg(y))

RECURSIVE ISqrtIter(_, _, _)
\* the largest s in lo..hi with s*s <= n, by bisection
ISqrtIter(n, lo, hi) ==
    IF lo >= hi THEN lo
    ELSE IF ((lo + hi + 1) \div 2) * ((lo + hi + 1) \div 2) <= n
    THEN ISqrtIter(n, (lo + hi + 1) \div 2, hi)
    ELSE ISqrtIter(n, lo, (lo + hi + 1) \div 2 - 1)

\* one Newton step for the square root of x from the estimate y
SqrtStep(x, y) == FMul(FHalf, FAdd(y, FDiv(x, y)))

\* np.sqrt: nan for a negative argument, otherwise the root to eight digits
FSqrt(x) ==
    IF x.nan \/ x.m < 0 THEN NaN
    ELSE IF x.m = 0 THEN FZero
    ELSE SqrtStep(x, SqrtStep(x,
             IF (x.e % 2) # 0
             THEN Norm(1, ISqrtIter(x.m * 10, 0, 46340), (x.e - 1) \div 2)
             ELSE Norm(1, ISqrtIter(x.m, 0, 46340), x.e \div 2)))

\* x < y and x <= y; every comparison with nan is False, as in Python
FLt(x, y) == ~x.nan /\ ~y.nan /\ FSub(x, y).m < 0
FLe(x, y) == ~x.nan /\ ~y.nan /\ FSub(x, y).m <= 0

RECURSIVE FPowNat(_, _)
FPowNat(x, n) == IF n = 0 THEN FOne ELSE FMul(x, FPowNat(x, n - 1))

\* float ** int
FPowInt(x, n) == IF n >= 0 THEN FPowNat(x, n) ELSE FDiv(FOne, FPowNat(x, -n))

(***************************************************************************)
(* scipy.integrate.quad on [0, 1].  The library integrates adaptively and  *)
(* never evaluates the end points; it returns the estimate together with   *)
(* an estimate of the absolute error, and when it fails to converge it     *)
(* only warns: the estimate is returned all the same.  Here the estimate   *)
(* is a composite three-point Gauss rule on a mesh graded towards 0        *)
(* (a = u^2), the error estimate is the difference between the rule on     *)
(* QuadPanels and on 2*QuadPanels panels, and ier is 0 when that           *)
(* difference is within the relative tolerance QuadTol.                    *)
(***************************************************************************)
QuadPanels == 4
QuadTol == [nan |-> FALSE, m |-> 10000000, e |-> -11]

\* nodes (on [0, 1]) and weights of the three-point Gauss-Legendre rule
GaussNodes ==
    << [nan |-> FALSE, m |-> 11270167, e |-> -8],
       [nan |-> FALSE, m |-> 50000000, e |-> -8],
       [nan |-> FALSE, m |-> 88729833, e |-> -8] >>
GaussWeights ==
    << [nan |-> FALSE, m |-> 27777778, e |-> -8],
       [nan |-> FALSE, m |-> 44444444, e |-> -8],
       [nan |-> FALSE, m |-> 27777778, e |-> -8] >>

RECURSIVE FSum(_)
FSum(s) == IF s = << >> THEN FZero ELSE FAdd(Head(s), FSum(Tail(s)))

\* the weight and the node of the t-th point of the rule on panels of width h
GaussWeight(t, h) == FMul(GaussWeights[((t - 1) % 3) + 1], h)
GaussNode(t, h) ==
    FMul(FAdd(Flt((t - 1) \div 3, 0), GaussNodes[((t - 1) % 3) + 1]), h)

\* the term of the rule at the node u of weight w, where fa = f(u^2):
\* w * f(u^2) * 2u
GaussTerm(fa, w, u) == FMul(w, FMul(fa, FMul(FTwo, u)))

QuadResult(fine, err) ==
    [val |-> fine,
     abserr |-> err,
     ier |-> IF FLe(err, FMul(QuadTol, FAbs(fine))) THEN 0 ELSE 1]

QuadCompare(coarse, fine) == QuadResult(fine, FAbs(FSub(fine, coarse)))


(***************************************************************************)
(* The age / diameter cell.                                                *)
(***************************************************************************)
\* astropy.constants: kpc in m, c in m/s, hbar in J s, G in m^3 kg^-1 s^-2
kpc_value == [nan |-> FALSE, m |-> 30856776, e |-> 12]
c_value == [nan |-> FALSE, m |-> 29979246, e |-> 1]
hbar_value == [nan |-> FALSE, m |-> 10545718, e |-> -41]
G_value == [nan |-> FALSE, m |-> 66743000, e |-> -18]
\* c left in m/s
c_cgs_unconverted == c_value

\* c.to("cm/s").value
c_cgs_value == [c_value EXCEPT !.e = c_value.e + 2]

H0_const == [nan |-> FALSE, m |-> 67360000, e |-> -6]
\* H0 * 1e3 / (kpc.value * 1e3)
H0_cgs_of(H0v) ==
    FDiv(FMul(H0v, [nan |-> FALSE, m |-> 10000000, e |-> -4]),
         FMul(kpc_value, [nan |-> FALSE, m |-> 10000000, e |-> -4]))
omegam_const == [nan |-> FALSE, m |-> 31530000, e |-> -8]
\* 60 * 60 * 24 * 365 * 1e9
Gyr_const == [nan |-> FALSE, m |-> 60 * 60 * 24 * 365, e |-> 9]

\* E with matter diluting as a**-2 instead of a**-3
E_surface(a, om) == FSqrt(FAdd(FMul(om, FPowInt(a, -2)), FSub(FOne, om)))

\* E with the matter term growing as a**3
E_growing(a, om) == FSqrt(FAdd(FMul(om, FPowInt(a, 3)), FSub(FOne, om)))

\* def E(a): return np.sqrt(omegam*a**-3 + (1-omegam))
E(a, om) == FSqrt(FAdd(FMul(om, FPowInt(a, -3)), FSub(FOne, om)))

\* the age integrand without the factor 1/a
AgeIntegrand_unweighted(a, om) == FDiv(FOne, E(a, om))

\* lambda a: 1/(a*E(a))
AgeIntegrand(a, om) == FDiv(FOne, FMul(a, E(a, om)))
\* lambda a: 1/(a**2*E(a))
DiamIntegrand(a, om) == FDiv(FOne, FMul(FPowInt(a, 2), E(a, om)))

\* the integrand of the call: the first or the second lambda of the cell
Integrand(f, a, om) ==
    IF f = "age" THEN AgeIntegrand(a, om) ELSE DiamIntegrand(a, om)

\* the rule's sum for the integrand f over n panels of width h
GaussRule(f, om, n, h) ==
    FSum([t \in 1..(3 * n) |->
            GaussTerm(Integrand(f, FMul(GaussNode(t, h), GaussNode(t, h)), om),
                      GaussWeight(t, h), GaussNode(t, h))])

\* quad(f, 0, 1)
quad(f, om) ==
    QuadCompare(GaussRule(f, om, QuadPanels, FDiv(FOne, Flt(QuadPanels, 0))),
                GaussRule(f, om, 2 * QuadPanels, FDiv(FOne, Flt(2 * QuadPanels, 0))))

(***************************************************************************)
(* sympy's exact rationals and its solve() on the 3x3 linear system.       *)
(***************************************************************************)
Abs(n) == IF n < 0 THEN -n ELSE n
Sgn(n) == IF n < 0 THEN -1 ELSE 1

RECURSIVE Gcd(_, _)
Gcd(a, b) == IF b = 0 THEN a ELSE Gcd(b, a % b)

\* the fraction n/d in lowest terms with a positive denominator
Rat(n, d) ==
    LET g == Gcd(Abs(n), Abs(d))
    IN  [num |-> Sgn(d) * (n \div g), den |-> Abs(d) \div g]

\* the base dimensions, in the order the cell iterates over them
Dims == << "L", "T", "M" >>

\* the length target with the roles of L and T exchanged
L_dims_exchanged == [L |-> 0, T |-> 1, M |-> 0]

L_dims == [L |-> 1, T |-> 0, M |-> 0]
T_dims == [L |-> 0, T |-> 1, M |-> 0]
c_dims_const == [L |-> 1, T |-> -1, M |-> 0]
hbar_dims_const == [L |-> 2, T |-> -1, M |-> 1]
G_dims_const == [L |-> 3, M |-> -1, T |-> -2]

Det2(a, b, x, y) == a[x] * b[y] - a[y] * b[x]

\* determinant of the matrix whose columns are the dimension vectors a, b, g
Det3(a, b, g) ==
      a.L * Det2(b, g, "T", "M")
    - b.L * Det2(a, g, "T", "M")
    + g.L * Det2(a, b, "T", "M")

IsZeroVec(v) == v.L = 0 /\ v.T = 0 /\ v.M = 0

\* rank of a set of dimension vectors (the columns of a matrix), by minors
RankOf(cols) ==
    IF \E a \in cols, b \in cols, g \in cols : Det3(a, b, g) # 0 THEN 3
    ELSE IF \E a \in cols, b \in cols :
               \E x \in {"L", "T", "M"}, y \in {"L", "T", "M"} : Det2(a, b, x, y) # 0
         THEN 2
    ELSE IF \E a \in cols : ~IsZeroVec(a) THEN 1
    ELSE 0

(***************************************************************************)
(* solve([i*c_dims[x] + j*hbar_dims[x] + k*G_dims[x] - target[x]           *)
(*        for x in (L, T, M)], i, j, k, dict=True)                         *)
(* The result is a list of solution dicts: one dict with the three exact   *)
(* exponents when the solution is unique; the empty list when the system   *)
(* is inconsistent; and, when there are infinitely many solutions, one     *)
(* dict that expresses the leading symbols in terms of the free ones and   *)
(* has no key for a free symbol.                                           *)
(***************************************************************************)
\* solve with the target substituted into the wrong columns for j and k
solve_swapped(cd, hd, gd, target) ==
    LET det == Det3(cd, hd, gd)
    IN  IF det # 0
        THEN << [unique |-> TRUE,
                 i |-> Rat(Det3(target, hd, gd), det),
                 j |-> Rat(Det3(cd, hd, target), det),
                 k |-> Rat(Det3(target, hd, gd), det)] >>
        ELSE << >>

solve(cd, hd, gd, target) ==
    LET det == Det3(cd, hd, gd)
    IN  IF det # 0
        THEN << [unique |-> TRUE,
                 i |-> Rat(Det3(target, hd, gd), det),
                 j |-> Rat(Det3(cd, target, gd), det),
                 k |-> Rat(Det3(cd, hd, target), det)] >>
        ELSE IF RankOf({cd, hd, gd, target}) > RankOf({cd, hd, gd})
        THEN << >>
        ELSE << [unique |-> FALSE, free |-> 3 - RankOf({cd, hd, gd})] >>

\* float ** Rational(n, d): the d-th root (d = 1 or 2 for every exponent the
\* inputs below produce) raised to the n-th power
FPowRat(x, r) ==
    IF r.den = 1 THEN FPowInt(x, r.num)
    ELSE IF r.den = 2 THEN FPowInt(FSqrt(x), r.num)
    ELSE NaN

(***************************************************************************)
(* The kernel: its namespace, the output area and execution count of each  *)
(* cell, and the kernel's execution counter.                               *)
(***************************************************************************)
VARIABLES
    imported,           \* the names of the imports cell are bound
    ns,                 \* the names the other cells bind
    outputs,            \* cell -> the lines its last execution displayed
    status,             \* cell -> "none", "ok" or the exception that stopped it
    execution_count,    \* cell -> the counter value at its last execution
    counter,            \* the kernel's execution counter
    pie_file            \* universal_pie.pdf has been written

vars == << imported, ns, outputs, status, execution_count, counter, pie_file >>

Cells == {"imports", "age", "solve", "conv", "chart"}

Names == {"H0", "H0_cgs", "omegam", "age", "Gyr", "diameter",
          "c_dims", "hbar_dims", "G_dims", "t_p_dims", "l_p_dims",
          "t_p_cgs", "l_p_cgs", "omegal", "h", "omegab", "omegac", "sizes"}

Unbound == [unbound |-> TRUE]
Bound(n) == ns[n] # Unbound

\* the longest run of executions the model follows
MaxExec == 6

\* values the user may give omegam in the age cell before running it
OmegaInputs == {omegam_const, Flt(5, -2), Flt(0, 0), Flt(1, 0), Flt(15, -1)}

\* values the user may give hbar_dims and G_dims in the solve cell
HbarDimInputs == {hbar_dims_const, [L |-> 2, T |-> -2, M |-> 0]}
GDimInputs == {G_dims_const, [L |-> 3, T |-> -2, M |-> 1],
               [L |-> 0, T |-> 1, M |-> 0]}

\* the pairs of edits followed: the notebook's hbar_dims with every G_dims
\* (independent, inconsistent, independent again) and hbar_dims = 2 c_dims
\* with G_dims = T_dims (infinitely many solutions)
SolveInputs ==
    { p \in HbarDimInputs \X GDimInputs :
        p[1] = hbar_dims_const \/ p[2] = [L |-> 0, T |-> 1, M |-> 0] }

Init ==
    /\ imported = FALSE
    /\ ns = [n \in Names |-> Unbound]
    /\ outputs = [cell \in Cells |-> << >>]
    /\ status = [cell \in Cells |-> "none"]
    /\ execution_count = [cell \in Cells |-> 0]
    /\ counter = 0
    /\ pie_file = FALSE

\* what every execution of a cell does to the kernel's bookkeeping
Executed(cell, st, lines) ==
    /\ counter < MaxExec
    /\ counter' = counter + 1
    /\ execution_count' = [execution_count EXCEPT ![cell] = counter + 1]
    /\ status' = [status EXCEPT ![cell] = st]
    /\ outputs' = [outputs EXCEPT ![cell] = lines]

Line(label, val) == [label |-> label, val |-> val]

\* an imports cell that binds nothing
ImportsCell_empty ==
    /\ Executed("imports", "ok", << >>)
    /\ UNCHANGED << imported, ns, pie_file >>

ImportsCell ==
    /\ Executed("imports", "ok", << >>)
    /\ imported' = TRUE
    /\ UNCHANGED << ns, pie_file >>

\* the points a = u^2 where the rule on n panels evaluates its integrand
QuadPoints(n) ==
    { FMul(GaussNode(t, FDiv(FOne, Flt(n, 0))), GaussNode(t, FDiv(FOne, Flt(n, 0)))) :
      t \in 1..(3 * n) }

\* E and the two integrands at every point the quadratures evaluate them, and
\* at a = 1, for each value omegam may be given (computed once)
ETable ==
    { [omegam |-> p[1], a |-> p[2],
       E |-> E(p[2], p[1]),
       age |-> AgeIntegrand(p[2], p[1]),
       diameter |-> DiamIntegrand(p[2], p[1])] :
      p \in OmegaInputs \X (QuadPoints(QuadPanels) \cup QuadPoints(2 * QuadPanels)
                               \cup {FOne}) }

\* both quadratures of the age cell, for each value omegam may be given
QuadTable ==
    { << om, quad("age", om), quad("diameter", om) >> : om \in OmegaInputs }

QuadAge(om) == (CHOOSE t \in QuadTable : t[1] = om)[2]
QuadDiam(om) == (CHOOSE t \in QuadTable : t[1] = om)[3]

\* age = 1/H0_cgs*quad(lambda a: 1/(a*E(a)), 0, 1)[0]
age_of(H0c, om) == FMul(FDiv(FOne, H0c), QuadAge(om).val)

\* diameter = 2 * c.to("cm/s").value / H0_cgs * quad(lambda a: 1/(a**2*E(a)), 0, 1)[0]
diameter_of(H0c, om) ==
    FMul(FDiv(FMul(FTwo, c_cgs_value), H0c), QuadDiam(om).val)

\* the four lines the age cell prints
AgeLines(a, g, d) ==
    << Line("Age (Gyr)", FDiv(a, g)),
       Line("Age (s)", a),
       Line("Diameter (Gpc)", FDiv(FDiv(d, Flt(1, 2)), FMul(kpc_value, Flt(1, 6)))),
       Line("Diameter (cm)", d) >>

\* the values the cell binds, for each value omegam may be given (computed
\* once: the cell's arithmetic does not depend on the rest of the state)
AgeTable ==
    { [omegam |-> om,
       H0_cgs |-> H0_cgs_of(H0_const),
       age |-> age_of(H0_cgs_of(H0_const), om),
       diameter |-> diameter_of(H0_cgs_of(H0_const), om),
       lines |-> AgeLines(age_of(H0_cgs_of(H0_const), om), Gyr_const,
                          diameter_of(H0_cgs_of(H0_const), om))] :
      om \in OmegaInputs }

\* the cell with the conversion to Gyr and Gpc stored back into age and
\* diameter
AgeCellRuns_converted(b) ==
    /\ Executed("age", "ok", b.lines)
    /\ ns' = [ns EXCEPT !["H0"] = H0_const, !["H0_cgs"] = b.H0_cgs,
                        !["omegam"] = b.omegam, !["Gyr"] = Gyr_const,
                        !["age"] = b.lines[1].val,
                        !["diameter"] = b.lines[3].val]

\* the cell once the imports are there: every statement succeeds
AgeCellRuns(b) ==
    /\ Executed("age", "ok", b.lines)
    /\ ns' = [ns EXCEPT !["H0"] = H0_const, !["H0_cgs"] = b.H0_cgs,
                        !["omegam"] = b.omegam, !["age"] = b.age,
                        !["Gyr"] = Gyr_const, !["diameter"] = b.diameter]

AgeCell(om) ==
    /\ UNCHANGED << imported, pie_file >>
    /\ IF ~imported
       THEN \* H0 is bound, then kpc raises NameError
            /\ Executed("age", "NameError", << >>)
            /\ ns' = [ns EXCEPT !["H0"] = H0_const]
       ELSE AgeCellRuns(CHOOSE b \in AgeTable : b.omegam = om)

(***************************************************************************)
(* The Planck solve cell.  solve(...)[0] raises IndexError on the empty    *)
(* list; t_p_dims[i] raises KeyError on a dict without that key.  An       *)
(* exception stops the cell and keeps the bindings made before it.         *)
(***************************************************************************)
\* both solves of the cell, for each pair of vectors the user may give
SolveTable ==
    { [hbar_dims |-> hd, G_dims |-> gd,
       t |-> solve(c_dims_const, hd, gd, T_dims),
       l |-> solve(c_dims_const, hd, gd, L_dims)] :
      hd \in HbarDimInputs, gd \in GDimInputs }

\* the cell with one result slot shared by the two solves: the second solve
\* overwrites what the first returned
SolveCellRuns_shared(hd, gd, st, sl) ==
    /\ ns' = [ns EXCEPT !["c_dims"] = c_dims_const, !["hbar_dims"] = hd,
                        !["G_dims"] = gd,
                        !["t_p_dims"] = IF sl = << >> THEN Unbound ELSE sl[1],
                        !["l_p_dims"] = IF sl = << >> THEN Unbound ELSE sl[1]]
    /\ Executed("solve",
                IF st = << >> \/ sl = << >> THEN "IndexError"
                ELSE IF sl[1].unique THEN "ok" ELSE "KeyError",
                << >>)

\* the cell once the imports are there; st and sl are what the two solves return
SolveCellRuns(hd, gd, st, sl) ==
    LET ns1 == [ns EXCEPT !["c_dims"] = c_dims_const, !["hbar_dims"] = hd,
                          !["G_dims"] = gd]
    IN  IF st = << >>
        THEN /\ Executed("solve", "IndexError", << >>)
             /\ ns' = ns1
        ELSE IF sl = << >>
        THEN /\ Executed("solve", "IndexError", << >>)
             /\ ns' = [ns1 EXCEPT !["t_p_dims"] = st[1]]
        ELSE /\ ns' = [ns1 EXCEPT !["t_p_dims"] = st[1], !["l_p_dims"] = sl[1]]
             /\ IF ~st[1].unique
                THEN Executed("solve", "KeyError", << >>)
                ELSE IF ~sl[1].unique
                THEN Executed("solve", "KeyError", << Line("t_Pl", st[1]) >>)
                ELSE Executed("solve", "ok",
                              << Line("t_Pl", st[1]), Line("l_Pl", sl[1]) >>)

SolveCellLookup(r) == SolveCellRuns(r.hbar_dims, r.G_dims, r.t, r.l)

SolveCell(hd, gd) ==
    /\ UNCHANGED << imported, pie_file >>
    /\ IF ~imported
       THEN \* L = length raises NameError
            /\ Executed("solve", "NameError", << >>)
            /\ ns' = ns
       ELSE SolveCellLookup(CHOOSE r \in SolveTable :
                                r.hbar_dims = hd /\ r.G_dims = gd)

(***************************************************************************)
(* The Planck conversion cell.                                             *)
(***************************************************************************)
\* c.value**dims[i] * hbar.value**dims[j] * G.value**dims[k]
planck_of(dims) ==
    FMul(FMul(FPowRat(c_value, dims.i), FPowRat(hbar_value, dims.j)),
         FPowRat(G_value, dims.k))

\* the Planck length left in metres
l_p_cgs_metres(dims) == planck_of(dims)

t_p_cgs_of(dims) == planck_of(dims)
l_p_cgs_of(dims) == FMul(planck_of(dims), Flt(100, 0))

\* the exponent dicts a successful solve can have bound
SolvedDims ==
    { r.t[1] : r \in { q \in SolveTable : q.t # << >> } }
        \cup { r.l[1] : r \in { q \in SolveTable : q.l # << >> } }

\* t_p_cgs and l_p_cgs for each of them (computed once)
PlanckTable ==
    { [dims |-> d, t |-> t_p_cgs_of(d), l |-> l_p_cgs_of(d)] :
      d \in { x \in SolvedDims : x.unique } }

\* the cell with the ratios stored back into age and diameter
ConvPrints_inplace(tp, lp) ==
    /\ ns' = [ns EXCEPT !["t_p_cgs"] = tp, !["l_p_cgs"] = lp,
                        !["age"] = IF Bound("age") THEN FDiv(ns["age"], tp) ELSE Unbound,
                        !["diameter"] = IF Bound("diameter")
                                        THEN FDiv(ns["diameter"], lp) ELSE Unbound]
    /\ IF Bound("age") /\ Bound("diameter")
       THEN Executed("conv", "ok",
                     << Line("Age (t_p)", FDiv(ns["age"], tp)),
                        Line("Diameter (l_p)", FDiv(ns["diameter"], lp)) >>)
       ELSE Executed("conv", "NameError", << >>)

\* the prints of the cell, once t_p_cgs = tp and l_p_cgs = lp are bound
ConvPrints(tp, lp) ==
    /\ ns' = [ns EXCEPT !["t_p_cgs"] = tp, !["l_p_cgs"] = lp]
    /\ IF ~Bound("age")
       THEN Executed("conv", "NameError", << >>)
       ELSE IF ~Bound("diameter")
       THEN Executed("conv", "NameError", << Line("Age (t_p)", FDiv(ns["age"], tp)) >>)
       ELSE Executed("conv", "ok",
                     << Line("Age (t_p)", FDiv(ns["age"], tp)),
                        Line("Diameter (l_p)", FDiv(ns["diameter"], lp)) >>)

\* the cell from its second statement on, t_p_cgs = tp being bound
ConvLength(tp) ==
    IF ~Bound("l_p_dims")
    THEN /\ Executed("conv", "NameError", << >>)
         /\ ns' = [ns EXCEPT !["t_p_cgs"] = tp]
    ELSE IF ~ns["l_p_dims"].unique
    THEN /\ Executed("conv", "KeyError", << >>)
         /\ ns' = [ns EXCEPT !["t_p_cgs"] = tp]
    ELSE ConvPrints(tp, (CHOOSE q \in PlanckTable : q.dims = ns["l_p_dims"]).l)

ConvCell ==
    /\ UNCHANGED << imported, pie_file >>
    /\ IF ~imported \/ ~Bound("t_p_dims")
       THEN /\ Executed("conv", "NameError", << >>)
            /\ ns' = ns
       ELSE IF ~ns["t_p_dims"].unique
       THEN /\ Executed("conv", "KeyError", << >>)
            /\ ns' = ns
       ELSE ConvLength((CHOOSE q \in PlanckTable : q.dims = ns["t_p_dims"]).t)

(***************************************************************************)
(* The composition chart cell.                                             *)
(***************************************************************************)
\* omegal rounded to three decimals
omegal_rounded == Flt(685, -3)

omegal_const == Flt(6847, -4)
ombh2_const == Flt(2237, -5)
omch2_const == Flt(1200, -4)

\* the cold dark matter fraction with a single power of h
omegac_linear(hv) == FDiv(omch2_const, hv)

h_of(H0v) == FDiv(H0v, Flt(100, 0))
omegab_of(hv) == FDiv(ombh2_const, FPowInt(hv, 2))
omegac_of(hv) == FDiv(omch2_const, FPowInt(hv, 2))

\* the wedges drawn without dividing by the total
pie_unnormalised(sizes) == sizes

\* ax.pie(sizes): each wedge is its size divided by the sum of the sizes
pie_fracs(sizes) == [n \in 1..Len(sizes) |-> FDiv(sizes[n], FSum(sizes))]

\* a float between 0 and 1000 rounded to the nearest integer
FRound(x) ==
    IF x.m = 0 \/ x.e < -9 THEN 0
    ELSE IF x.e >= 0 THEN x.m * Pow10[x.e + 1]
    ELSE (2 * x.m + Pow10[1 - x.e]) \div (2 * Pow10[1 - x.e])

\* autopct="%1.1f%%": 100 * frac rounded to one decimal, counted in tenths
\* of a percent
autopct(frac) == FRound(FMul(Flt(1000, 0), frac))

\* the labels on the wedges of ax.pie(sizes, autopct="%1.1f%%")
pie_labels(sizes) == [n \in 1..Len(sizes) |-> autopct(pie_fracs(sizes)[n])]

\* what the cell computes from H0 (computed once for each value H0 has)
ChartTable ==
    { [H0 |-> v,
       h |-> h_of(v),
       omegab |-> omegab_of(h_of(v)),
       omegac |-> omegac_of(h_of(v)),
       labels |-> pie_labels(<< omegab_of(h_of(v)), omegac_of(h_of(v)),
                                omegal_const >>)] : v \in {H0_const} }

\* the cell from h = H0 / 100 on
ChartDraws(b) ==
    /\ ns' = [ns EXCEPT !["omegal"] = omegal_const, !["h"] = b.h,
                        !["omegab"] = b.omegab, !["omegac"] = b.omegac,
                        !["sizes"] = << b.omegab, b.omegac, omegal_const >>]
    /\ IF ~imported
       THEN \* plt.subplots raises NameError
            /\ Executed("chart", "NameError", << >>)
            /\ UNCHANGED pie_file
       ELSE /\ Executed("chart", "ok",
                        << Line("pie", << b.omegab, b.omegac, omegal_const >>),
                           Line("autopct", b.labels) >>)
            /\ pie_file' = TRUE

ChartCell ==
    /\ UNCHANGED imported
    /\ IF ~Bound("H0")
       THEN \* omegal and ombh2 are bound, then h = H0 / 100 raises NameError
            /\ Executed("chart", "NameError", << >>)
            /\ ns' = [ns EXCEPT !["omegal"] = omegal_const]
            /\ UNCHANGED pie_file
       ELSE ChartDraws(CHOOSE b \in ChartTable : b.H0 = ns["H0"])

Next ==
    \/ ImportsCell
    \/ \E om \in OmegaInputs : AgeCell(om)
    \/ \E p \in SolveInputs : SolveCell(p[1], p[2])
    \/ ConvCell
    \/ ChartCell

Spec == Init /\ [][Next]_vars

(***************************************************************************)
(* Properties.                                                             *)
(***************************************************************************)
RatSub(a, b) == Rat(a.num * b.den - b.num * a.den, a.den * b.den)

\* the solve cell last ran on the vectors d_c = (1,-1,0), d_hbar = (2,-1,1),
\* d_G = (3,-2,-1)
NotebookVectors ==
    /\ ns["c_dims"] = [L |-> 1, T |-> -1, M |-> 0]
    /\ ns["hbar_dims"] = [L |-> 2, T |-> -1, M |-> 1]
    /\ ns["G_dims"] = [L |-> 3, T |-> -2, M |-> -1]

\* C1: for the vectors of c, hbar and G and the time-only target (0,1,0), the
\* solve returns exactly (i, j, k) = (-5/2, 1/2, 1/2).
C1_PlanckTimeExponents ==
    NotebookVectors =>
        ns["t_p_dims"] = [unique |-> TRUE,
                          i |-> [num |-> -5, den |-> 2],
                          j |-> [num |-> 1, den |-> 2],
                          k |-> [num |-> 1, den |-> 2]]

C1_Witness ==
    /\ NotebookVectors
    /\ status["solve"] = "ok"
    /\ Bound("t_p_dims")
    /\ outputs["solve"][1] = Line("t_Pl", ns["t_p_dims"])

\* C2: for the same vectors and the length-only target (1,0,0), the solve
\* returns exactly (-3/2, 1/2, 1/2); it differs from the Planck-time triple
\* only in the exponent of c, which is larger by exactly 1.
C2_PlanckLengthExponents ==
    NotebookVectors =>
        /\ ns["l_p_dims"] = [unique |-> TRUE,
                             i |-> [num |-> -3, den |-> 2],
                             j |-> [num |-> 1, den |-> 2],
                             k |-> [num |-> 1, den |-> 2]]
        /\ ns["l_p_dims"].j = ns["t_p_dims"].j
        /\ ns["l_p_dims"].k = ns["t_p_dims"].k
        /\ RatSub(ns["l_p_dims"].i, ns["t_p_dims"].i) = [num |-> 1, den |-> 1]

C2_Witness ==
    /\ NotebookVectors
    /\ status["solve"] = "ok"
    /\ Bound("l_p_dims")
    /\ outputs["solve"][2] = Line("l_Pl", ns["l_p_dims"])

\* the vectors the solve cell last ran on are linearly dependent
DegenerateVectors ==
    /\ Bound("c_dims") /\ Bound("hbar_dims") /\ Bound("G_dims")
    /\ Det3(ns["c_dims"], ns["hbar_dims"], ns["G_dims"]) = 0

\* C3: an exponent triple is returned only when the solution is unique: on
\* linearly dependent vectors the solve cell fails with a DegenerateSystem
\* error and binds no parametrised triple.
C3_DegenerateSystemError ==
    DegenerateVectors =>
        /\ status["solve"] = "DegenerateSystem"
        /\ Bound("t_p_dims") => ns["t_p_dims"].unique
        /\ Bound("l_p_dims") => ns["l_p_dims"].unique

\* the cell's output area shows a line with this label
HasLine(cell, label) ==
    \E n \in 1..Len(outputs[cell]) : outputs[cell][n].label = label

\* the value printed after the label
LineVal(cell, label) ==
    outputs[cell][CHOOSE n \in 1..Len(outputs[cell]) :
                      outputs[cell][n].label = label].val

ResultLabels == {"Age (Gyr)", "Age (s)", "Diameter (Gpc)", "Diameter (cm)",
                 "Age (t_p)", "Diameter (l_p)"}

\* the cell's output area shows one of the six labelled result lines
PrintsResult(cell) == \E label \in ResultLabels : HasLine(cell, label)

Failed(cell) == status[cell] \notin {"none", "ok"}

\* one of the two quadratures of the last age-cell run did not converge
NonConvergent ==
    /\ Bound("omegam")
    /\ QuadAge(ns["omegam"]).ier # 0 \/ QuadDiam(ns["omegam"]).ier # 0

\* C4: when either quadrature does not converge the age cell fails with a
\* NumericalInstability error and no age or diameter is printed; in
\* particular none is printed in the de Sitter limit omegam = 0.
C4_NonConvergenceFails ==
    NonConvergent =>
        /\ status["age"] = "NumericalInstability"
        /\ ~PrintsResult("age")

\* the age cell last ran with omegam <= 0 or omegam >= 1
OutOfDomain ==
    /\ Bound("omegam")
    /\ FLe(ns["omegam"], FZero) \/ FLe(FOne, ns["omegam"])

\* C5: omegam <= 0 or omegam >= 1 is a domain violation: the age cell fails
\* with an error and prints no age or diameter.
C5_DomainViolationFails ==
    OutOfDomain =>
        /\ Failed("age")
        /\ ~PrintsResult("age")

\* the error estimates of the two quadratures of the last age-cell run, as
\* returned and as scaled into the units of age and diameter
ErrorEstimates ==
    { QuadAge(ns["omegam"]).abserr,
      QuadDiam(ns["omegam"]).abserr,
      FMul(FDiv(FOne, ns["H0_cgs"]), QuadAge(ns["omegam"]).abserr),
      FMul(FDiv(FMul(FTwo, c_cgs_value), ns["H0_cgs"]),
           QuadDiam(ns["omegam"]).abserr) }

\* an error estimate reaches the caller: it is printed or bound to a name
EstimateCarried ==
    \/ \E n \in 1..Len(outputs["age"]) : outputs["age"][n].val \in ErrorEstimates
    \/ \E name \in {"H0", "H0_cgs", "omegam", "age", "Gyr", "diameter"} :
           ns[name] \in ErrorEstimates

\* C6: every quadrature result carries its error estimate to the caller, and
\* a run whose estimate exceeds the relative tolerance does not complete as
\* if it had converged.
C6_ErrorEstimateReported ==
    status["age"] = "ok" =>
        /\ EstimateCarried
        /\ ~NonConvergent

\* the position of each cell in the notebook
Order == [imports |-> 1, age |-> 2, solve |-> 3, conv |-> 4, chart |-> 5]

\* the executions so far are a top-to-bottom run of the first cells, each once
InOrderRun ==
    \A cell \in Cells :
        IF Order[cell] <= counter THEN execution_count[cell] = Order[cell]
        ELSE execution_count[cell] = 0

\* C7: outputs are all-or-nothing: in a top-to-bottom run, if a step fails
\* then none of the six labelled lines has been printed before the failure.
C7_AllOrNothing ==
    InOrderRun =>
        \A cell \in Cells :
            Failed(cell) => \A other \in Cells : ~PrintsResult(other)

Within(x, lo, hi) == FLe(lo, x) /\ FLe(x, hi)

\* the age cell last ran with the notebook's H0 = 67.36 and omegam = 0.3153
NotebookCosmology ==
    /\ status["age"] = "ok"
    /\ ns["H0"] = Flt(6736, -2)
    /\ ns["omegam"] = Flt(3153, -4)

\* C8: with H0 = 67.36 and omegam = 0.3153 the printed age is 13.81 Gyr
\* within 0.01 (4.36e17 s to three figures) and the printed diameter is
\* 28.83 Gpc within 0.01 (8.90e28 cm to three figures).
C8_AgeAndDiameter ==
    NotebookCosmology =>
        /\ Within(LineVal("age", "Age (Gyr)"), Flt(1380, -2), Flt(1382, -2))
        /\ Within(LineVal("age", "Age (s)"), Flt(4355, 14), Flt(4365, 14))
        /\ Within(LineVal("age", "Diameter (Gpc)"), Flt(2882, -2), Flt(2884, -2))
        /\ Within(LineVal("age", "Diameter (cm)"), Flt(8895, 25), Flt(8905, 25))

C8_Witness ==
    /\ NotebookCosmology
    /\ HasLine("age", "Age (Gyr)")
    /\ HasLine("age", "Diameter (Gpc)")
    /\ LineVal("age", "Age (s)") = ns["age"]

\* x is within the fraction tol of y
RelClose(x, y, tol) == FLe(FAbs(FSub(x, y)), FMul(tol, FAbs(y)))

\* the conversion cell ran, after the age cell and the solve cell, on the
\* notebook's numbers
NotebookConversion ==
    /\ NotebookCosmology
    /\ NotebookVectors
    /\ status["conv"] = "ok"
    /\ execution_count["conv"] > execution_count["age"]
    /\ execution_count["conv"] > execution_count["solve"]

\* C9: age / t_Pl and diameter / l_Pl are 8.03e60 and 5.47e61 within 1%, and
\* multiplying back by the Planck time and length recovers age and diameter.
C9_PlanckUnits ==
    NotebookConversion =>
        /\ RelClose(LineVal("conv", "Age (t_p)"), Flt(803, 58), Flt(1, -2))
        /\ RelClose(LineVal("conv", "Diameter (l_p)"), Flt(547, 59), Flt(1, -2))
        /\ RelClose(FMul(LineVal("conv", "Age (t_p)"), ns["t_p_cgs"]),
                    ns["age"], Flt(1, -6))
        /\ RelClose(FMul(LineVal("conv", "Diameter (l_p)"), ns["l_p_cgs"]),
                    ns["diameter"], Flt(1, -6))

C9_Witness ==
    /\ NotebookConversion
    /\ HasLine("conv", "Age (t_p)")
    /\ HasLine("conv", "Diameter (l_p)")

\* C10: with h = 0.6736, ombh2 = 0.02237, omch2 = 0.1200 and omegal = 0.6847
\* the three charted fractions sum to less than 1 and to more than 0.97.
C10_FractionsSum ==
    Bound("sizes") =>
        /\ ns["h"] = Flt(6736, -4)
        /\ ns["sizes"][3] = Flt(6847, -4)
        /\ ns["sizes"][1] = FDiv(Flt(2237, -5), FMul(ns["h"], ns["h"]))
        /\ ns["sizes"][2] = FDiv(Flt(1200, -4), FMul(ns["h"], ns["h"]))
        /\ FLt(FSum(ns["sizes"]), FOne)
        /\ FLt(Flt(97, -2), FSum(ns["sizes"]))

C10_Witness ==
    /\ status["chart"] = "ok"
    /\ outputs["chart"][1] = Line("pie", ns["sizes"])
    /\ pie_file

\* C11: for a matter-only universe (omegam = 1) the age the cell computes
\* equals the closed form (2/3)/H0 within the relative tolerance 1e-6.
C11_MatterOnlyClosedForm ==
    (status["age"] = "ok" /\ ns["omegam"] = FOne) =>
        RelClose(ns["age"], FDiv(FDiv(FTwo, Flt(3, 0)), ns["H0_cgs"]), Flt(1, -6))

C11_Witness ==
    /\ status["age"] = "ok"
    /\ ns["omegam"] = FOne
    /\ QuadAge(ns["omegam"]).ier = 0
    /\ LineVal("age", "Age (s)") = ns["age"]

\* C12: the solver keeps no state and depends on the target only: after the
\* solve cell the vectors of c, hbar and G are the ones it was given, the
\* Planck-time triple is the solution for the time target and the
\* Planck-length triple the solution for the length target, whatever ran
\* before and however often.
C12_SolverStateless ==
    status["solve"] = "ok" =>
        /\ ns["c_dims"] = c_dims_const
        /\ << ns["hbar_dims"], ns["G_dims"] >> \in SolveInputs
        /\ << ns["t_p_dims"] >> =
               solve(ns["c_dims"], ns["hbar_dims"], ns["G_dims"], T_dims)
        /\ << ns["l_p_dims"] >> =
               solve(ns["c_dims"], ns["hbar_dims"], ns["G_dims"], L_dims)

C12_Witness ==
    /\ status["solve"] = "ok"
    /\ execution_count["solve"] > 2
    /\ ns["G_dims"] = [L |-> 0, T |-> 1, M |-> 0]
    /\ ns["t_p_dims"].unique
    /\ ns["t_p_dims"] # ns["l_p_dims"]

\* C13: the conversions to Gyr and Gpc happen in the prints only: the stored
\* age and diameter stay in seconds and centimetres, the printed Gyr and Gpc
\* values are the stored ones times a scalar, and a conversion cell run
\* afterwards divides the stored base-unit values.
C13_ConversionAtPrintOnly ==
    status["age"] = "ok" =>
        /\ ns["age"] = age_of(ns["H0_cgs"], ns["omegam"])
        /\ ns["diameter"] = diameter_of(ns["H0_cgs"], ns["omegam"])
        /\ LineVal("age", "Age (s)") = ns["age"]
        /\ LineVal("age", "Diameter (cm)") = ns["diameter"]
        /\ LineVal("age", "Age (Gyr)") = FDiv(ns["age"], ns["Gyr"])
        /\ LineVal("age", "Diameter (Gpc)") =
               FDiv(FDiv(ns["diameter"], Flt(1, 2)), FMul(kpc_value, Flt(1, 6)))
        /\ (status["conv"] = "ok" /\ execution_count["conv"] > execution_count["age"]) =>
               /\ LineVal("conv", "Age (t_p)") = FDiv(ns["age"], ns["t_p_cgs"])
               /\ LineVal("conv", "Diameter (l_p)") = FDiv(ns["diameter"], ns["l_p_cgs"])

C13_Witness ==
    /\ status["age"] = "ok"
    /\ status["conv"] = "ok"
    /\ execution_count["conv"] > execution_count["age"]
    /\ HasLine("conv", "Age (t_p)")
    /\ LineVal("age", "Age (Gyr)") # ns["age"]

\* the values last given to the edited names are the notebook's own
NotebookInputs ==
    /\ Bound("omegam") => ns["omegam"] = omegam_const
    /\ Bound("hbar_dims") => ns["hbar_dims"] = hbar_dims_const
    /\ Bound("G_dims") => ns["G_dims"] = G_dims_const

\* C14: a top-to-bottom run of the five cells with the notebook's constants
\* completes: no cell raises (so every name a cell reads was bound before
\* it), and at the end the six labelled lines are printed and
\* universal_pie.pdf is written.
C14_TopToBottomCompletes ==
    (InOrderRun /\ NotebookInputs) =>
        /\ \A cell \in Cells : status[cell] \in {"none", "ok"}
        /\ counter = 5 =>
               /\ \A label \in ResultLabels : \E cell \in Cells : HasLine(cell, label)
               /\ \A cell \in Cells : status[cell] = "ok"
               /\ pie_file

C14_Witness ==
    /\ InOrderRun
    /\ NotebookInputs
    /\ counter = 5
    /\ status["chart"] = "ok"
    /\ HasLine("conv", "Diameter (l_p)")

\* what the cells bind and display in a run on the notebook's constants
NotebookAge == CHOOSE b \in AgeTable : b.omegam = omegam_const
NotebookSolve ==
    CHOOSE r \in SolveTable :
        r.hbar_dims = hbar_dims_const /\ r.G_dims = G_dims_const
NotebookPlanck ==
    [t |-> (CHOOSE q \in PlanckTable : q.dims = NotebookSolve.t[1]).t,
     l |-> (CHOOSE q \in PlanckTable : q.dims = NotebookSolve.l[1]).l]
NotebookChart == CHOOSE b \in ChartTable : b.H0 = H0_const

NotebookNamespace ==
    [H0 |-> H0_const, H0_cgs |-> NotebookAge.H0_cgs, omegam |-> omegam_const,
     age |-> NotebookAge.age, Gyr |-> Gyr_const, diameter |-> NotebookAge.diameter,
     c_dims |-> c_dims_const, hbar_dims |-> hbar_dims_const, G_dims |-> G_dims_const,
     t_p_dims |-> NotebookSolve.t[1], l_p_dims |-> NotebookSolve.l[1],
     t_p_cgs |-> NotebookPlanck.t, l_p_cgs |-> NotebookPlanck.l,
     omegal |-> omegal_const, h |-> NotebookChart.h,
     omegab |-> NotebookChart.omegab, omegac |-> NotebookChart.omegac,
     sizes |-> << NotebookChart.omegab, NotebookChart.omegac, omegal_const >>]

NotebookOutputs ==
    [imports |-> << >>,
     age |-> NotebookAge.lines,
     solve |-> << Line("t_Pl", NotebookSolve.t[1]), Line("l_Pl", NotebookSolve.l[1]) >>,
     conv |-> << Line("Age (t_p)", FDiv(NotebookAge.age, NotebookPlanck.t)),
                 Line("Diameter (l_p)", FDiv(NotebookAge.diameter, NotebookPlanck.l)) >>,
     chart |-> << Line("pie", << NotebookChart.omegab, NotebookChart.omegac,
                                 omegal_const >>),
                  Line("autopct", NotebookChart.labels) >>]

\* every cell has completed and the kernel holds exactly the notebook's values
Settled ==
    /\ \A cell \in Cells : status[cell] = "ok"
    /\ ns = NotebookNamespace
    /\ outputs = NotebookOutputs
    /\ pie_file

\* C15: cells are coupled only through values an earlier cell bound: a
\* complete top-to-bottom run leaves the kernel settled, and from then on
\* re-running any cell, any number of times in any order, shows the same
\* output for it and changes no binding of any cell.
C15_RerunReproduces ==
    /\ []((InOrderRun /\ NotebookInputs /\ counter = 5) => Settled)
    /\ [][(Settled /\ NotebookInputs') => Settled']_vars

C15_Witness ==
    /\ Settled
    /\ counter = 6
    /\ \E cell \in Cells : execution_count = [Order EXCEPT ![cell] = 6]

\* the age cell has just run with omegam strictly between 0 and 1
InsideDomain ==
    /\ status["age"] = "ok"
    /\ execution_count["age"] = counter
    /\ FLt(FZero, ns["omegam"])
    /\ FLt(ns["omegam"], FOne)

\* C16: for omegam in (0,1), at every point a in (0,1] where the cell
\* evaluates it, E(a) is real and at least 1, E(1) = 1, and both integrands
\* are defined and strictly positive.
C16_ExpansionRateAtLeastOne ==
    InsideDomain =>
        \A r \in ETable :
            r.omegam = ns["omegam"] =>
                /\ ~r.E.nan /\ ~r.age.nan /\ ~r.diameter.nan
                /\ FLe(FOne, r.E)
                /\ r.a = FOne => r.E = FOne
                /\ FLt(FZero, r.age)
                /\ FLt(FZero, r.diameter)

C16_Witness ==
    /\ InsideDomain
    /\ ns["omegam"] # omegam_const
    /\ \E r \in ETable : r.omegam = ns["omegam"] /\ r.a # FOne /\ FLt(FOne, r.E)
    /\ \E r \in ETable : r.omegam = ns["omegam"] /\ r.a = FOne

\* C17: the dark-energy fraction the chart draws, omegal = 0.6847, is the
\* flatness complement 1 - omegam of omegam = 0.3153, the constant term of
\* the radicand of E(a).
C17_DarkEnergyIsComplement ==
    (Bound("omegal") /\ Bound("omegam") /\ ns["omegam"] = Flt(3153, -4)) =>
        /\ ns["omegal"] = Flt(6847, -4)
        /\ ns["omegal"] = FSub(FOne, ns["omegam"])
        /\ Bound("sizes") => ns["sizes"][3] = FSub(FOne, ns["omegam"])

C17_Witness ==
    /\ status["chart"] = "ok"
    /\ status["age"] = "ok"
    /\ ns["omegam"] = Flt(3153, -4)
    /\ ns["sizes"][3] = ns["omegal"]

\* C18: the chart normalises the three fractions to a total of 100%: each
\* label is the fraction divided by the sum of the three, as a percentage
\* rounded to one decimal, and the labels are 4.9%, 26.5% and 68.6%.
C18_PieShares ==
    status["chart"] = "ok" =>
        /\ LineVal("chart", "autopct") = << 49, 265, 686 >>
        /\ \A n \in 1..3 :
               LineVal("chart", "autopct")[n] =
                   FRound(FMul(Flt(1000, 0), FDiv(ns["sizes"][n], FSum(ns["sizes"]))))

C18_Witness ==
    /\ status["chart"] = "ok"
    /\ pie_file
    /\ HasLine("chart", "autopct")
    /\ LineVal("chart", "pie") = ns["sizes"]

\* C19: both ratios are formed in one unit: H0_cgs is H0 in 1/s, so age is
\* in seconds like the Planck time (5.39e-44 s); c is taken in cm/s, so
\* diameter is in centimetres, and the Planck length is in centimetres too
\* (1.616e-33 cm, equal to c in cm/s times the Planck time); each printed
\* ratio is the plain quotient of the two stored values.
C19_UnitsAgree ==
    (NotebookConversion) =>
        /\ RelClose(ns["H0_cgs"], Flt(2183, -21), Flt(1, -3))
        /\ c_cgs_value = FMul(c_value, Flt(100, 0))
        /\ RelClose(ns["diameter"],
                    FMul(FMul(FTwo, FMul(c_value, Flt(100, 0))),
                         FDiv(QuadDiam(ns["omegam"]).val, ns["H0_cgs"])),
                    Flt(1, -6))
        /\ Within(ns["t_p_cgs"], Flt(539, -46), Flt(540, -46))
        /\ Within(ns["l_p_cgs"], Flt(1616, -36), Flt(1617, -36))
        /\ RelClose(ns["l_p_cgs"], FMul(FMul(c_value, Flt(100, 0)), ns["t_p_cgs"]),
                    Flt(1, -6))
        /\ LineVal("conv", "Age (t_p)") = FDiv(ns["age"], ns["t_p_cgs"])
        /\ LineVal("conv", "Diameter (l_p)") = FDiv(ns["diameter"], ns["l_p_cgs"])

C19_Witness ==
    /\ NotebookConversion
    /\ execution_count["solve"] > execution_count["age"]
    /\ FLt(Flt(1, 60), LineVal("conv", "Age (t_p)"))
    /\ FLt(Flt(1, 61), LineVal("conv", "Diameter (l_p)"))

\* both cells show their lines
BothDisplayed ==
    /\ HasLine("age", "Age (s)") /\ HasLine("age", "Diameter (cm)")
    /\ HasLine("conv", "Age (t_p)") /\ HasLine("conv", "Diameter (l_p)")

\* C20: after any sequence of cell executions the displayed outputs agree:
\* the displayed 'Age (t_p)' is the displayed 'Age (s)' divided by the Planck
\* time and the displayed 'Diameter (l_p)' is the displayed 'Diameter (cm)'
\* divided by the Planck length in centimetres.
C20_DisplayedOutputsConsistent ==
    BothDisplayed =>
        /\ RelClose(LineVal("conv", "Age (t_p)"),
                    FDiv(LineVal("age", "Age (s)"), ns["t_p_cgs"]), Flt(1, -6))
        /\ RelClose(LineVal("conv", "Diameter (l_p)"),
                    FDiv(LineVal("age", "Diameter (cm)"), ns["l_p_cgs"]), Flt(1, -6))

=============================================================================
